---- MODULE Spec2Model ----
(***************************************************************************)
(* Model of platformio/commands/platform.py: the `platform` command group  *)
(* (search, install, show, uninstall, update).                             *)
(*                                                                         *)
(* Python strings are sequences of one-character strings, with the fixed   *)
(* pieces of a format string kept as single elements.  The collaborators   *)
(* (PlatformManager, PlatformFactory, util.get_api_result, click.confirm,  *)
(* app.get_setting) are the environment: what they return or raise is      *)
(* chosen nondeterministically at the call.  `log` records, in program     *)
(* order, every collaborator call and every line written to the terminal.  *)
(***************************************************************************)
EXTENDS Integers, Sequences, FiniteSets, TLC

VARIABLES
    pc,             \* position of the running command
    cmd,            \* the command that was invoked
    platforms,      \* install / uninstall: the tuple of tokens
    opts,           \* install: with_package, without_package, skip_default_package
    i,              \* index of the loop iteration about to run
    ret,            \* where platform_install returns to
    platform,       \* show: the argument
    p,              \* show: the local variable p
    enable_prompts, \* app.get_setting("enable_prompts")
    query,          \* search: the argument (None when absent)
    json_output,    \* search: the flag
    api_result,     \* search: what util.get_api_result("/platforms") returned
    only_packages,  \* update: the flag
    installed,      \* update: what PlatformManager().get_installed() returned
    exc,            \* the exception that ended the command, or "none"
    log             \* collaborator calls and terminal output, in order

vars == <<pc, cmd, platforms, opts, i, ret, platform, p, enable_prompts, query,
          json_output, api_result, only_packages, installed, exc, log>>

----------------------------------------------------------------------------
(* Bounds of the model *)

MaxTokenLen == 2

MaxBatch == 2

MaxCatalog == 2

MaxInstalled == 2

----------------------------------------------------------------------------
(* Python values *)

None == [some |-> FALSE]

Some(v) == [some |-> TRUE, val |-> v]

\* Sequences over S of length at most n
SeqUpTo(S, n) == UNION {[1..k -> S] : k \in 0..n}

\* `c in s` for a single character c
CharIn(c, s) == \E k \in 1..Len(s) : s[k] = c

\* `q in s` for strings
IsSubstring(q, s) ==
    \E k \in 0..(Len(s) - Len(q)) : SubSeq(s, k + 1, k + Len(q)) = q

LowerChar(c) ==
    CASE c = "A" -> "a"
      [] c = "L" -> "l"
      [] c = "V" -> "v"
      [] c = "R" -> "r"
      [] OTHER -> c

\* str.lower()
Lower(s) == [k \in 1..Len(s) |-> LowerChar(s[k])]

RECURSIVE Join(_, _)
\* sep.join(parts)
Join(sep, parts) ==
    IF Len(parts) = 0 THEN <<>>
    ELSE IF Len(parts) = 1 THEN parts[1]
    ELSE parts[1] \o sep \o Join(sep, Tail(parts))

\* c * n
Repeat(c, n) == [k \in 1..n |-> c]

----------------------------------------------------------------------------
(* platform.rsplit("@", 1), as used by install and uninstall *)

RECURSIVE FindFirstFrom(_, _, _)
FindFirstFrom(s, c, k) ==
    IF k > Len(s) THEN 0
    ELSE IF s[k] = c THEN k
    ELSE FindFirstFrom(s, c, k + 1)

\* a split on the FIRST separator: what str.split("@", 1) would find
RFindSplitsFirst(s, c, k) == FindFirstFrom(s, c, 1)

RECURSIVE RFind(_, _, _)
\* the index of the last c in s[1..k], 0 when there is none
RFind(s, c, k) ==
    IF k = 0 THEN 0
    ELSE IF s[k] = c THEN k
    ELSE RFind(s, c, k - 1)

\* s.rsplit("@", 1) of a string that holds an "@"
Rsplit(s) ==
    LET k == RFind(s, "@", Len(s))
    IN  <<SubSeq(s, 1, k - 1), SubSeq(s, k + 1, Len(s))>>

\* a parser that turns an empty suffix into None
ParseEmptyIsNone(token) ==
    IF CharIn("@", token)
    THEN [id |-> Rsplit(token)[1],
          version |-> IF Rsplit(token)[2] = <<>> THEN None
                      ELSE Some(Rsplit(token)[2])]
    ELSE [id |-> token, version |-> None]

\* lines 80-83 and 164-167: _platform, _version
ParsePlatform(token) ==
    IF CharIn("@", token)
    THEN [id |-> Rsplit(token)[1], version |-> Some(Rsplit(token)[2])]
    ELSE [id |-> token, version |-> None]

----------------------------------------------------------------------------
(* Inputs *)

TokenChars == {"f", "@"}

Tokens == SeqUpTo(TokenChars, MaxTokenLen)

\* nargs=-1, required=True: at least one token
Batches == SeqUpTo(Tokens, MaxBatch) \ {<<>>}

DefaultOptions == [with_package |-> <<>>, without_package |-> <<>>,
                   skip_default_package |-> FALSE]

Options == {DefaultOptions,
            [with_package |-> <<"toolchain">>, without_package |-> <<"framework">>,
             skip_default_package |-> TRUE]}

\* what PlatformManager().install / uninstall can do
InstallerResults == {"True", "False", "raise"}

\* Python truth of a collaborator's return value
Truthy(r) == r = "True"

----------------------------------------------------------------------------
(* Events of the log *)

Call(fn, args, result) == [kind |-> "call", fn |-> fn, args |-> args, result |-> result]

Echo(text) == [kind |-> "echo", text |-> text]

Secho(text) == [kind |-> "secho", text |-> text, fg |-> "green"]

InstalledMessage(token) ==
    <<"The platform '">> \o token
        \o <<"' has been successfully installed!\nThe rest of packages will be installed automatically depending on your build environment.">>

UninstalledMessage(token) ==
    <<"The platform '">> \o token \o <<"' has been successfully uninstalled!">>

----------------------------------------------------------------------------
(* install *)

\* a success message that names the parsed id instead of the token
InstallReportParsedId(token, result) ==
    IF Truthy(result) THEN <<Secho(InstalledMessage(ParsePlatform(token).id))>> ELSE <<>>

\* lines 84-90: what is written after install returned `result`
InstallReport(token, result) ==
    IF Truthy(result) THEN <<Secho(InstalledMessage(token))>> ELSE <<>>

InstallCall(token, o, result) ==
    Call("PlatformManager.install",
         <<ParsePlatform(token).id, ParsePlatform(token).version, o.with_package,
           o.without_package, o.skip_default_package>>,
         result)

\* an exception handler that swallows the collaborator's exception
NeverPropagates(result) == FALSE

\* an exception of the collaborator is not caught: it leaves the loop and the command
Propagates(result) == result = "raise"

----------------------------------------------------------------------------
(* uninstall *)

\* lines 168-170: what is written after uninstall returned `result`
UninstallReport(token, result) ==
    IF Truthy(result) THEN <<Secho(UninstalledMessage(token))>> ELSE <<>>

UninstallCall(token, result) ==
    Call("PlatformManager.uninstall",
         <<ParsePlatform(token).id, ParsePlatform(token).version>>, result)

----------------------------------------------------------------------------
(* update *)

ManifestPool == {[name |-> <<"f">>, version |-> <<"1">>],
                 [name |-> <<"f">>, version |-> <<"2">>],
                 [name |-> <<"g">>, version |-> <<"1">>]}

\* what PlatformManager().get_installed() can return
InstalledLists == SeqUpTo(ManifestPool, MaxInstalled)

\* --only-packages: newPlatform raises, or update_packages returns or raises
PackagesOutcomes == {"None", "True", "False", "raise", "resolve_raise"}

\* PlatformManager().update returns (its value is dropped) or raises
FullOutcomes == {"None", "raise"}

UpdateOutcomes(only) == IF only THEN PackagesOutcomes ELSE FullOutcomes

UpdateRaises(outcome) == outcome \in {"raise", "resolve_raise"}

\* lines 177-179
UpdateHeader(manifest) ==
    <<Echo(<<"Platform ">> \o manifest.name \o <<" @ ">> \o manifest.version),
      Echo(<<"--------">>)>>

\* a notice printed for every falsy status
NoticeOnFalsy(status) == ~Truthy(status)

\* line 183: status is None
UpToDate(status) == status = "None"

\* lines 181-184
UpdatePackages(manifest, outcome) ==
    IF outcome = "resolve_raise"
    THEN <<Call("PlatformFactory.newPlatform", <<manifest.name, manifest.version>>,
                "raise")>>
    ELSE <<Call("PlatformFactory.newPlatform", <<manifest.name, manifest.version>>,
                "platform"),
           Call("update_packages", <<manifest.name, manifest.version>>, outcome)>>
         \o (IF outcome # "raise" /\ UpToDate(outcome)
             THEN <<Secho(<<"Packages are up-to-date">>)>> ELSE <<>>)

\* line 186
UpdateFull(manifest, outcome) ==
    <<Call("PlatformManager.update", <<manifest.name, manifest.version>>, outcome)>>

\* an iteration that makes the collaborator call before it prints the header
UpdateCallsBeforeHeader(manifest, only, outcome) ==
    (IF only THEN UpdatePackages(manifest, outcome) ELSE UpdateFull(manifest, outcome))
        \o UpdateHeader(manifest)
        \o (IF UpdateRaises(outcome) THEN <<>> ELSE <<Echo(<<>>)>>)

\* lines 177-187: the events of one iteration of the loop of platform_update
UpdateIteration(manifest, only, outcome) ==
    UpdateHeader(manifest)
        \o (IF only THEN UpdatePackages(manifest, outcome)
            ELSE UpdateFull(manifest, outcome))
        \o (IF UpdateRaises(outcome) THEN <<>> ELSE <<Echo(<<>>)>>)

----------------------------------------------------------------------------
(* show *)

\* the objects PlatformFactory.newPlatform can return
PlatformObjects ==
    {[name |-> <<"f">>, title |-> <<"F">>, version |-> <<"1">>,
      manifest |-> [description |-> <<"d">>],
      packages |-> <<>>, installed |-> <<>>],
     [name |-> <<"g">>, title |-> <<"G">>, version |-> <<"2">>,
      manifest |-> [description |-> <<"e">>, homepage |-> <<"h">>,
                    license |-> <<"l">>, frameworks |-> << <<"w">> >>],
      packages |-> <<[name |-> <<"t">>, type |-> Some(<<"c">>), version |-> <<"~", "1">>],
                     [name |-> <<"u">>, type |-> None, version |-> <<"~", "2">>]>>,
      installed |-> <<[name |-> <<"t">>,
                       items |-> <<[key |-> "version", value |-> <<"1">>],
                                   [key |-> "name", value |-> <<"t">>],
                                   [key |-> "url", value |-> <<"h">>]>>]>>]}

\* key.title() of the three keys that are shown
TitleOf(key) ==
    CASE key = "url" -> "Url"
      [] key = "version" -> "Version"
      [] key = "description" -> "Description"
      [] OTHER -> key

RECURSIVE InstalledItemLines(_)
\* lines 155-157
InstalledItemLines(items) ==
    IF items = <<>> THEN <<>>
    ELSE (IF items[1].key \in {"url", "version", "description"}
          THEN <<Echo(<<TitleOf(items[1].key), ": ">> \o items[1].value)>>
          ELSE <<>>)
         \o InstalledItemLines(Tail(items))

\* name in installed_pkgs
IsInstalledPkg(obj, name) == \E k \in 1..Len(obj.installed) : obj.installed[k].name = name

InstalledPkg(obj, name) ==
    obj.installed[CHOOSE k \in 1..Len(obj.installed) : obj.installed[k].name = name]

\* lines 146-157: one package of the platform
PackageLines(obj, pkg) ==
    <<Echo(<<>>),
      Echo(<<"Package ">> \o pkg.name),
      Echo(Repeat("-", 8 + Len(pkg.name)))>>
    \o (IF pkg.type.some THEN <<Echo(<<"Type: ">> \o pkg.type.val)>> ELSE <<>>)
    \o <<Echo(<<"Requirements: ">> \o pkg.version),
         Echo(<<"Installed: ">>
              \o (IF IsInstalledPkg(obj, pkg.name) THEN <<"Yes">>
                  ELSE <<"No (optional)">>))>>
    \o (IF IsInstalledPkg(obj, pkg.name)
        THEN InstalledItemLines(InstalledPkg(obj, pkg.name).items) ELSE <<>>)

RECURSIVE PackagesLines(_, _)
\* lines 145-157
PackagesLines(obj, pkgs) ==
    IF pkgs = <<>> THEN <<>>
    ELSE PackageLines(obj, pkgs[1]) \o PackagesLines(obj, Tail(pkgs))

\* lines 127-157: the presentation of a resolved platform
ShowLines(obj) ==
    <<Echo(obj.name \o <<" ~ ">> \o obj.title),
      Echo(Repeat("=", 3 + Len(obj.name \o obj.title))),
      Echo(obj.manifest.description),
      Echo(<<>>),
      Echo(<<"Version: ">> \o obj.version)>>
    \o (IF "homepage" \in DOMAIN obj.manifest
        THEN <<Echo(<<"Home: ">> \o obj.manifest.homepage)>> ELSE <<>>)
    \o (IF "license" \in DOMAIN obj.manifest
        THEN <<Echo(<<"License: ">> \o obj.manifest.license)>> ELSE <<>>)
    \o (IF "frameworks" \in DOMAIN obj.manifest
        THEN <<Echo(<<"Frameworks: ">> \o Join(<<", ">>, obj.manifest.frameworks))>>
        ELSE <<>>)
    \o PackagesLines(obj, obj.packages)

\* what PlatformFactory.newPlatform(platform) can do in show
ResolveOutcomes == {"platform", "UnknownPlatform", "raise"}

ConfirmMessage(token) ==
    <<"The platform '">> \o token
        \o <<"' has not been installed yet. Would you like to install it now?">>

\* a condition that asks the user whatever the setting is
AlwaysConfirms(enabled) == TRUE

\* lines 120-121: `or` evaluates click.confirm only when the setting is true
ConfirmIsCalled(enabled) == enabled

\* a condition that installs whatever the user answered
InstallsRegardless(enabled, answer) == TRUE

\* lines 120-122: the condition of the if
InstallNow(enabled, answer) == ~enabled \/ answer

NoException == [type |-> "none", arg |-> <<>>]

Raised(type, arg) == [type |-> type, arg |-> arg]

----------------------------------------------------------------------------
(* search *)

\* the rows util.get_api_result("/platforms") can hold
CatalogPool ==
    {[type |-> <<"a", "v", "r">>, name |-> <<"A", "V", "R">>,
      description |-> <<"a", "l", "l">>, packages |-> << <<"t">> >>],
     [type |-> <<"l", "a">>, name |-> <<"L", "A">>,
      description |-> <<"r">>, packages |-> <<>>],
     [type |-> <<"v">>, name |-> <<"V">>,
      description |-> <<"a">>, packages |-> << <<"t">>, <<"l">> >>]}

Catalogs == SeqUpTo(CatalogPool, MaxCatalog)

\* the query argument: absent, empty, "all", "ALL", and filters
Queries == {None, Some(<<>>), Some(<<"a", "l", "l">>), Some(<<"A", "L", "L">>),
            Some(<<"a", "V">>), Some(<<"x">>), Some(<<"t", "y", "p", "e">>)}

\* json.dumps of a string of the model's alphabet
JsonString(s) == <<"\"">> \o s \o <<"\"">>

RECURSIVE JsonStrings(_)
JsonStrings(parts) ==
    IF parts = <<>> THEN <<>>
    ELSE <<JsonString(parts[1])>> \o JsonStrings(Tail(parts))

\* json.dumps of a list of strings
JsonList(parts) == <<"[">> \o Join(<<",", " ">>, JsonStrings(parts)) \o <<"]">>

JsonKey(k) == JsonString(k) \o <<":", " ">>

\* line 54: json.dumps(platform) of a catalog row (keys in sorted order)
JsonDumps(row) ==
    <<"{">>
    \o JsonKey(<<"d", "e", "s", "c", "r", "i", "p", "t", "i", "o", "n">>)
    \o JsonString(row.description) \o <<",", " ">>
    \o JsonKey(<<"n", "a", "m", "e">>) \o JsonString(row.name) \o <<",", " ">>
    \o JsonKey(<<"p", "a", "c", "k", "a", "g", "e", "s">>) \o JsonList(row.packages)
    \o <<",", " ">>
    \o JsonKey(<<"t", "y", "p", "e">>) \o JsonString(row.type)
    \o <<"}">>

\* a loop that has no "all" escape
QueryKeepsAll(q) == q

\* lines 51-52: the query the rest of the iteration uses
QueryInLoop(q) == IF q = Some(<<"a", "l", "l">>) THEN Some(<<>>) ELSE q

\* line 55: the row is skipped
Skipped(q, row) ==
    /\ q.some
    /\ q.val # <<>>
    /\ ~IsSubstring(Lower(q.val), Lower(JsonDumps(row)))

\* lines 59-64
SearchEntry(row) ==
    [name |-> row.type, title |-> row.name, description |-> row.description,
     packages |-> row.packages]

RECURSIVE SearchLoop(_, _, _, _)
\* lines 49-64: the loop from row k on, with the local `query` and the list so far
SearchLoop(rows, k, q, found) ==
    IF k > Len(rows) THEN found
    ELSE SearchLoop(rows, k + 1, QueryInLoop(q),
                    IF Skipped(QueryInLoop(q), rows[k]) THEN found
                    ELSE Append(found, SearchEntry(rows[k])))

\* lines 30-42: one platform of _print_platforms
PrintPlatform(entry) ==
    <<Echo(entry.name \o <<" ~ ">> \o entry.title),
      Echo(Repeat("=", 3 + Len(entry.name \o entry.title))),
      Echo(entry.description),
      Echo(<<>>),
      Echo(<<"Home: ", "http://platformio.org/platforms/">> \o entry.name)>>
    \o (IF entry.packages # <<>>
        THEN <<Echo(<<"Packages: ">> \o Join(<<", ">>, entry.packages))>> ELSE <<>>)
    \o (IF "version" \in DOMAIN entry
        THEN <<Echo(<<"Version: ">> \o entry.version)>> ELSE <<>>)
    \o <<Echo(<<>>)>>

RECURSIVE PrintPlatforms(_)
\* lines 28-42
PrintPlatforms(entries) ==
    IF entries = <<>> THEN <<>>
    ELSE PrintPlatform(entries[1]) \o PrintPlatforms(Tail(entries))

\* line 67: the list is written as one JSON document
EchoJson(entries) == [kind |-> "echo_json", data |-> entries]

\* lines 66-69
SearchOutput(json, entries) ==
    IF json THEN <<EchoJson(entries)>> ELSE PrintPlatforms(entries)

----------------------------------------------------------------------------
(* The commands *)

Init ==
    /\ pc = "start"
    /\ cmd = "none"
    /\ platforms = <<>>
    /\ opts = DefaultOptions
    /\ i = 1
    /\ ret = "done"
    /\ platform = <<>>
    /\ p = [bound |-> FALSE]
    /\ enable_prompts \in BOOLEAN
    /\ query = None
    /\ json_output = FALSE
    /\ api_result = <<>>
    /\ only_packages = FALSE
    /\ installed = <<>>
    /\ exc = NoException
    /\ log = <<>>

\* `platformio platform install <platforms> [options]`
InstallCmd ==
    /\ pc = "start"
    /\ \E ts \in Batches, o \in Options :
          /\ platforms' = ts
          /\ opts' = o
    /\ cmd' = "install"
    /\ pc' = "install"
    /\ i' = 1
    /\ ret' = "done"
    /\ UNCHANGED <<platform, p, enable_prompts, query, json_output, api_result,
                   only_packages, installed, exc, log>>

\* lines 79-90: one iteration of the loop of platform_install
InstallStep ==
    /\ pc = "install"
    /\ i <= Len(platforms)
    /\ \E r \in InstallerResults :
          IF Propagates(r)
          THEN /\ log' = log \o <<InstallCall(platforms[i], opts, r)>>
               /\ exc' = Raised("InstallerError", platforms[i])
               /\ pc' = "failed"
               /\ i' = i
          ELSE /\ log' = log \o <<InstallCall(platforms[i], opts, r)>>
                           \o InstallReport(platforms[i], r)
               /\ exc' = exc
               /\ pc' = pc
               /\ i' = i + 1
    /\ UNCHANGED <<cmd, platforms, opts, ret, platform, p, enable_prompts, query,
                   json_output, api_result, only_packages, installed>>

\* the loop of platform_install is exhausted: the function returns
InstallReturn ==
    /\ pc = "install"
    /\ i > Len(platforms)
    /\ pc' = ret
    /\ UNCHANGED <<cmd, platforms, opts, i, ret, platform, p, enable_prompts, query,
                   json_output, api_result, only_packages, installed, exc, log>>

\* `platformio platform uninstall <platforms>`
UninstallCmd ==
    /\ pc = "start"
    /\ \E ts \in Batches : platforms' = ts
    /\ cmd' = "uninstall"
    /\ pc' = "uninstall"
    /\ i' = 1
    /\ UNCHANGED <<opts, ret, platform, p, enable_prompts, query, json_output,
                   api_result, only_packages, installed, exc, log>>

\* lines 163-170: one iteration of the loop of platform_uninstall
UninstallStep ==
    /\ pc = "uninstall"
    /\ i <= Len(platforms)
    /\ \E r \in InstallerResults :
          IF Propagates(r)
          THEN /\ log' = log \o <<UninstallCall(platforms[i], r)>>
               /\ exc' = Raised("InstallerError", platforms[i])
               /\ pc' = "failed"
               /\ i' = i
          ELSE /\ log' = log \o <<UninstallCall(platforms[i], r)>>
                           \o UninstallReport(platforms[i], r)
               /\ exc' = exc
               /\ pc' = pc
               /\ i' = i + 1
    /\ UNCHANGED <<cmd, platforms, opts, ret, platform, p, enable_prompts, query,
                   json_output, api_result, only_packages, installed>>

\* the loop of platform_uninstall is exhausted
UninstallReturn ==
    /\ pc = "uninstall"
    /\ i > Len(platforms)
    /\ pc' = "done"
    /\ UNCHANGED <<cmd, platforms, opts, i, ret, platform, p, enable_prompts, query,
                   json_output, api_result, only_packages, installed, exc, log>>

\* `platformio platform update [--only-packages]`, line 176: the list is fetched
UpdateCmd ==
    /\ pc = "start"
    /\ \E only \in BOOLEAN, ms \in InstalledLists :
          /\ only_packages' = only
          /\ installed' = ms
    /\ cmd' = "update"
    /\ pc' = "update"
    /\ i' = 1
    /\ UNCHANGED <<platforms, opts, ret, platform, p, enable_prompts, query,
                   json_output, api_result, exc, log>>

\* lines 176-187: one iteration of the loop of platform_update
UpdateStep ==
    /\ pc = "update"
    /\ i <= Len(installed)
    /\ \E outcome \in UpdateOutcomes(only_packages) :
          /\ log' = log \o UpdateIteration(installed[i], only_packages, outcome)
          /\ IF UpdateRaises(outcome)
             THEN /\ exc' = Raised("CollaboratorError", installed[i].name)
                  /\ pc' = "failed"
                  /\ i' = i
             ELSE /\ exc' = exc
                  /\ pc' = pc
                  /\ i' = i + 1
    /\ UNCHANGED <<cmd, platforms, opts, ret, platform, p, enable_prompts, query,
                   json_output, api_result, only_packages, installed>>

\* the loop of platform_update is exhausted
UpdateReturn ==
    /\ pc = "update"
    /\ i > Len(installed)
    /\ pc' = "done"
    /\ UNCHANGED <<cmd, platforms, opts, i, ret, platform, p, enable_prompts, query,
                   json_output, api_result, only_packages, installed, exc, log>>

\* `platformio platform show <platform>`
ShowCmd ==
    /\ pc = "start"
    /\ \E t \in Tokens : platform' = t
    /\ cmd' = "show"
    /\ pc' = "show_resolve"
    /\ UNCHANGED <<platforms, opts, i, ret, p, enable_prompts, query, json_output,
                   api_result, only_packages, installed, exc, log>>

\* lines 117-119: the try block
ShowResolve ==
    /\ pc = "show_resolve"
    /\ \E outcome \in ResolveOutcomes :
          /\ log' = log \o <<Call("PlatformFactory.newPlatform", <<platform>>, outcome)>>
          /\ CASE outcome = "platform" ->
                    /\ \E obj \in PlatformObjects : p' = [bound |-> TRUE, obj |-> obj]
                    /\ pc' = "show_present"
                    /\ exc' = exc
               [] outcome = "UnknownPlatform" ->
                    /\ p' = p
                    /\ pc' = "show_except"
                    /\ exc' = exc
               [] OTHER ->
                    /\ p' = p
                    /\ pc' = "failed"
                    /\ exc' = Raised("CollaboratorError", platform)
    /\ UNCHANGED <<cmd, platforms, opts, i, ret, platform, enable_prompts, query,
                   json_output, api_result, only_packages, installed>>

\* lines 119-125: the handler of UnknownPlatform, up to the call of platform_install
ShowExcept ==
    /\ pc = "show_except"
    /\ \E answer \in BOOLEAN :
          /\ log' = log
                \o <<Call("app.get_setting", <<"enable_prompts">>,
                          IF enable_prompts THEN "True" ELSE "False")>>
                \o (IF ConfirmIsCalled(enable_prompts)
                    THEN <<Call("click.confirm", <<ConfirmMessage(platform)>>,
                                IF answer THEN "True" ELSE "False")>>
                    ELSE <<>>)
          /\ IF InstallNow(enable_prompts, answer)
             THEN \* line 123: ctx.invoke fills the options with their defaults
                  /\ platforms' = <<platform>>
                  /\ opts' = DefaultOptions
                  /\ i' = 1
                  /\ ret' = "show_present"
                  /\ pc' = "install"
                  /\ exc' = exc
             ELSE /\ exc' = Raised("PlatformNotInstalledYet", platform)
                  /\ pc' = "failed"
                  /\ UNCHANGED <<platforms, opts, i, ret>>
    /\ UNCHANGED <<cmd, platform, p, enable_prompts, query, json_output, api_result,
                   only_packages, installed>>

\* lines 127-157: the presentation reads the local p
ShowPresent ==
    /\ pc = "show_present"
    /\ IF p.bound
       THEN /\ log' = log \o ShowLines(p.obj)
            /\ pc' = "done"
            /\ exc' = exc
       ELSE \* p was never assigned: line 128 raises UnboundLocalError
            /\ log' = log
            /\ pc' = "failed"
            /\ exc' = Raised("UnboundLocalError", <<"p">>)
    /\ UNCHANGED <<cmd, platforms, opts, i, ret, platform, p, enable_prompts, query,
                   json_output, api_result, only_packages, installed>>

\* `platformio platform search [query] [--json-output]`, lines 48-69
SearchCmd ==
    /\ pc = "start"
    /\ \E q \in Queries, json \in BOOLEAN, rows \in Catalogs :
          /\ query' = q
          /\ json_output' = json
          /\ api_result' = rows
          /\ log' = <<Call("util.get_api_result", <<"/platforms">>, "list")>>
                      \o SearchOutput(json, SearchLoop(rows, 1, q, <<>>))
    /\ cmd' = "search"
    /\ pc' = "done"
    /\ UNCHANGED <<platforms, opts, i, ret, platform, p, enable_prompts,
                   only_packages, installed, exc>>

Next ==
    \/ SearchCmd
    \/ InstallCmd
    \/ InstallStep
    \/ InstallReturn
    \/ ShowCmd
    \/ ShowResolve
    \/ ShowExcept
    \/ ShowPresent
    \/ UninstallCmd
    \/ UninstallStep
    \/ UninstallReturn
    \/ UpdateCmd
    \/ UpdateStep
    \/ UpdateReturn

Spec == Init /\ [][Next]_vars

----------------------------------------------------------------------------
(* What is read off the log *)

IsCall(e, fn) == e.kind = "call" /\ e.fn = fn

IsInstallerCall(e) ==
    e.kind = "call" /\ e.fn \in {"PlatformManager.install", "PlatformManager.uninstall"}

\* the calls of PlatformManager().install and .uninstall, in order
InstallerCalls == SelectSeq(log, IsInstallerCall)

\* the indexes of the log that hold a call of fn
CallIdx(fn) == {j \in 1..Len(log) : IsCall(log[j], fn)}

\* the token a call of the Installer stands for: id, or id@version
CallToken(c) ==
    IF c.args[2].some THEN c.args[1] \o <<"@">> \o c.args[2].val ELSE c.args[1]

IsOutput(e) == e.kind \in {"echo", "secho", "echo_json"}

SechoIdx == {j \in 1..Len(log) : log[j].kind = "secho"}

----------------------------------------------------------------------------
(* C1: every token handed to install or uninstall reaches the Installer split
   at its LAST "@": the id is what precedes it and the version constraint what
   follows it (so the constraint holds no "@"); a token without "@" reaches it
   whole, with the version constraint None. *)
C1_SplitOnLastAt ==
    cmd \in {"install", "uninstall", "show"} =>
        /\ Len(InstallerCalls) <= Len(platforms)
        /\ \A k \in 1..Len(InstallerCalls) :
              LET c == InstallerCalls[k]
                  t == platforms[k]
              IN  IF CharIn("@", t)
                  THEN /\ c.args[2].some
                       /\ t = c.args[1] \o <<"@">> \o c.args[2].val
                       /\ ~CharIn("@", c.args[2].val)
                  ELSE /\ c.args[1] = t
                       /\ ~c.args[2].some

\* two calls were made: one for a token with two "@", one for a token with none
C1_Witness ==
    /\ cmd \in {"install", "uninstall"}
    /\ \E k \in 1..Len(InstallerCalls) :
          /\ platforms[k] = <<"@", "@">>
          /\ InstallerCalls[k].args[1] = <<"@">>
    /\ \E k \in 1..Len(InstallerCalls) :
          /\ platforms[k] = <<"f">>
          /\ ~InstallerCalls[k].args[2].some

(* C2: in install, the success message of a token is written exactly when the
   Installer's install returned a truthy value for it, directly after that
   call, and the message holds the token as it was given, "@version" included;
   after a falsy result nothing is written. *)
C2_MessageIffTruthy ==
    LET idx == CallIdx("PlatformManager.install")
    IN  cmd \in {"install", "show"} =>
        /\ \A j \in idx :
              LET k == Cardinality({c \in idx : c <= j})
              IN  IF Truthy(log[j].result)
                  THEN /\ j < Len(log)
                       /\ log[j + 1].kind = "secho"
                       /\ Len(log[j + 1].text) = Len(platforms[k]) + 2
                       /\ SubSeq(log[j + 1].text, 2, Len(log[j + 1].text) - 1)
                             = platforms[k]
                  ELSE j < Len(log) => ~IsOutput(log[j + 1])
        /\ \A s \in SechoIdx :
              s - 1 \in idx /\ Truthy(log[s - 1].result)

\* a token with a version suffix was installed, and a second token was a no-op
C2_Witness ==
    /\ cmd = "install"
    /\ pc = "done"
    /\ platforms = << <<"f", "@">>, <<"f">> >>
    /\ Cardinality(SechoIdx) = 1
    /\ Len(log) = 3
    /\ log[1].result = "True"
    /\ log[3].result = "False"

(* C3: in show, once the resolution failed with UnknownPlatform and prompts are
   disabled, click.confirm is never called and the flow goes on to
   platform_install with the single token (and the default options). *)
C3_NoPromptWhenDisabled ==
    (/\ cmd = "show"
     /\ ~enable_prompts
     /\ \E j \in CallIdx("PlatformFactory.newPlatform") :
           log[j].result = "UnknownPlatform"
     /\ pc # "show_except")
    => /\ CallIdx("click.confirm") = {}
       /\ exc.type # "PlatformNotInstalledYet"
       /\ platforms = <<platform>>
       /\ opts = DefaultOptions
       /\ ret = "show_present"
       /\ \/ pc = "install" /\ i = 1
          \/ \E j \in CallIdx("PlatformManager.install") :
                CallToken(log[j]) = platform

\* prompts disabled, the platform unknown, and the Installer was called for it
C3_Witness ==
    /\ cmd = "show"
    /\ ~enable_prompts
    /\ \E j \in CallIdx("PlatformFactory.newPlatform") :
          log[j].result = "UnknownPlatform"
    /\ \E j \in CallIdx("PlatformManager.install") : CallToken(log[j]) = platform
    /\ platform # <<>>

(* C4: in show, when the user answered no to the install prompt, the command has
   ended with PlatformNotInstalledYet naming the platform, the Installer was not
   called and nothing was written. *)
C4_DeclineAborts ==
    (/\ cmd = "show"
     /\ \E j \in CallIdx("click.confirm") : log[j].result = "False")
    => /\ pc = "failed"
       /\ exc = Raised("PlatformNotInstalledYet", platform)
       /\ CallIdx("PlatformManager.install") = {}
       /\ \A j \in 1..Len(log) : ~IsOutput(log[j])
       /\ IsCall(log[Len(log)], "click.confirm")

\* the user was asked about "f@" and declined
C4_Witness ==
    /\ cmd = "show"
    /\ enable_prompts
    /\ platform = <<"f", "@">>
    /\ \E j \in CallIdx("click.confirm") : log[j].result = "False"
    /\ exc.type = "PlatformNotInstalledYet"

(* C5: in update --only-packages, PlatformManager().update is never called, and
   the up-to-date notice is written for a manifest exactly when update_packages
   returned None for it (directly after that call). *)
C5_OnlyPackagesNotice ==
    (cmd = "update" /\ only_packages) =>
        /\ CallIdx("PlatformManager.update") = {}
        /\ \A j \in CallIdx("update_packages") :
              (log[j].result = "None")
                 <=> (j < Len(log) /\ log[j + 1].kind = "secho")
        /\ \A s \in SechoIdx :
              /\ log[s].text = <<"Packages are up-to-date">>
              /\ s - 1 \in CallIdx("update_packages")

\* one manifest was up to date, another one was updated (or reported False)
C5_Witness ==
    /\ cmd = "update"
    /\ only_packages
    /\ pc = "done"
    /\ \E j \in CallIdx("update_packages") : log[j].result = "None"
    /\ \E j \in CallIdx("update_packages") : log[j].result = "False"

(* C6: install hands the tokens to the Installer one at a time and in order;
   an exception of the Installer ends the command (only the last call can
   have raised, so no later token is ever passed); what was done for the
   earlier tokens is kept: their calls and messages stay in the log and no
   other collaborator (no uninstall, no rollback) is called. *)
C6_FailFastInOrder ==
    LET idx == CallIdx("PlatformManager.install")
    IN  cmd = "install" =>
        /\ Len(InstallerCalls) <= Len(platforms)
        /\ \A k \in 1..Len(InstallerCalls) : CallToken(InstallerCalls[k]) = platforms[k]
        /\ \A j \in 1..Len(log) : log[j].kind = "call" => j \in idx
        /\ \A j \in idx : log[j].result = "raise" =>
              /\ j = Len(log)
              /\ pc = "failed"
              /\ exc = Raised("InstallerError", platforms[Cardinality(idx)])
        /\ Cardinality(SechoIdx)
              = Cardinality({j \in idx : Truthy(log[j].result)})
        /\ pc = "done" => Len(InstallerCalls) = Len(platforms)
        /\ pc = "failed" => log[Len(log)].result = "raise"

\* the first of two tokens raised: the second was never passed on
C6_Witness ==
    /\ cmd = "install"
    /\ pc = "failed"
    /\ Len(platforms) = 2
    /\ Len(InstallerCalls) = 1
    /\ platforms[1] # platforms[2]

(* C7, as the specification states it: the version constraint handed to the
   Installer is None or a non-empty string. *)
C7_ConstraintNeverEmpty ==
    \A k \in 1..Len(InstallerCalls) :
        InstallerCalls[k].args[2].some => InstallerCalls[k].args[2].val # <<>>

(* C7, amended: the version constraint handed to the Installer is None exactly
   when the token holds no "@"; otherwise it is the string after the last "@",
   which may be empty: a token that ends in "@" yields the empty string, not
   None, and only such a token does. *)
C7_EmptySuffixIsEmptyString ==
    cmd \in {"install", "uninstall", "show"} =>
        \A k \in 1..Len(InstallerCalls) :
            LET v == InstallerCalls[k].args[2]
                t == platforms[k]
            IN  /\ v.some <=> CharIn("@", t)
                /\ v = Some(<<>>) <=> (t # <<>> /\ t[Len(t)] = "@")

\* the token "f@" was handed on as id "f" with the empty string as constraint
C7_Witness ==
    \E k \in 1..Len(InstallerCalls) :
        /\ platforms[k] = <<"f", "@">>
        /\ InstallerCalls[k].args[1] = <<"f">>
        /\ InstallerCalls[k].args[2] = Some(<<>>)

\* the entries search builds from rows when none is skipped
AllEntries(rows) ==
    [k \in 1..Len(rows) |->
        [name |-> rows[k].type, title |-> rows[k].name,
         description |-> rows[k].description, packages |-> rows[k].packages]]

(* C8: search with the query "all", with the empty query or without a query
   writes every row of the catalog, once each and in the order of the catalog. *)
C8_AllKeepsEveryRow ==
    (cmd = "search" /\ query \in {None, Some(<<>>), Some(<<"a", "l", "l">>)})
    => /\ json_output =>
             /\ Len(log) = 2
             /\ log[2].kind = "echo_json"
             /\ log[2].data = AllEntries(api_result)
       /\ ~json_output =>
             SubSeq(log, 2, Len(log)) = PrintPlatforms(AllEntries(api_result))

\* "all" against two different rows, one of which does not hold the text "all"
C8_Witness ==
    /\ cmd = "search"
    /\ query = Some(<<"a", "l", "l">>)
    /\ json_output
    /\ Len(api_result) = 2
    /\ api_result[1].type = <<"l", "a">>
    /\ api_result[2].type = <<"a", "v", "r">>
    /\ Len(log[2].data) = 2

(* C9: in show, the presentation is reached only with p bound to the platform
   a successful resolution returned, and the command never ends in the
   UnboundLocalError of an unassigned p: after an on-demand install that
   completed, the platform is presented. *)
C9_PresentsResolvedPlatform ==
    cmd = "show" =>
        /\ pc = "show_present" => p.bound
        /\ exc.type # "UnboundLocalError"

IsHeader(e) == e.kind = "echo" /\ Len(e.text) > 0 /\ e.text[1] = "Platform "

HeaderIdx == {j \in 1..Len(log) : IsHeader(log[j])}

\* the call update makes first for a manifest
PrimaryFn ==
    IF only_packages THEN "PlatformFactory.newPlatform" ELSE "PlatformManager.update"

(* C10: update walks the manifests in listing order; the header of a manifest
   (its name and recorded version) is written before the collaborator is called
   for it, the collaborator is called once per manifest with exactly that name
   and version, through the packages-only path or the full one and never both,
   and after a collaborator's exception nothing more is written or called. *)
C10_HeaderThenOneCall ==
    LET prim == CallIdx(PrimaryFn)
    IN  cmd = "update" =>
        /\ Cardinality(prim) = Cardinality(HeaderIdx)
        /\ Cardinality(prim) <= Len(installed)
        /\ \A h \in HeaderIdx :
              LET k == Cardinality({x \in HeaderIdx : x <= h})
              IN  /\ log[h].text = <<"Platform ">> \o installed[k].name
                                      \o <<" @ ">> \o installed[k].version
                  /\ Cardinality({c \in prim : c < h}) = k - 1
        /\ \A c \in prim :
              LET k == Cardinality({h \in HeaderIdx : h < c})
              IN  /\ k = Cardinality({x \in prim : x <= c})
                  /\ log[c].args = <<installed[k].name, installed[k].version>>
        /\ \A u \in CallIdx("update_packages") :
              /\ u - 1 \in prim
              /\ log[u - 1].result = "platform"
              /\ log[u].args = log[u - 1].args
        /\ only_packages => CallIdx("PlatformManager.update") = {}
        /\ ~only_packages =>
              CallIdx("PlatformFactory.newPlatform") \cup CallIdx("update_packages") = {}
        /\ \A j \in 1..Len(log) :
              (log[j].kind = "call" /\ log[j].result = "raise")
                 => (j = Len(log) /\ pc = "failed")
        /\ pc = "done" => Cardinality(HeaderIdx) = Len(installed)

\* the second of two manifests made the collaborator raise, after its header
C10_Witness ==
    /\ cmd = "update"
    /\ pc = "failed"
    /\ Len(installed) = 2
    /\ installed[1] # installed[2]
    /\ Cardinality(HeaderIdx) = 2
    /\ log[Len(log)].result = "raise"

====
